---- MODULE Spec2Model ----
(***************************************************************************)
(* Hackathon monitor: the scrape-and-reconcile pipeline.                   *)
(*                                                                         *)
(*   storage/excel_manager.py        ExcelManager (the record store)       *)
(*   scrapers/hackathon_scraper.py   HackathonScraper (fetch + extract)    *)
(*   hackathon_monitor_crossplatform.py  HackathonMonitor (the cycle)      *)
(*                                                                         *)
(* A Python dict is a TLA+ record, a Python list a sequence, Python's None *)
(* the string None below.  An exception that leaves an operation is the    *)
(* field "raised" of the operation's result.                               *)
(***************************************************************************)
EXTENDS Integers, Sequences, FiniteSets, TLC

VARIABLES
    file,                \* the store file: "ok", "missing", "corrupt" or "unreadable"
    rows,                \* the data rows of the sheet (row 2, 3, ...), in row order
    config,              \* PLATFORMS section: [devpost, mlh, unstop -> BOOLEAN]
    pc,                  \* position inside run_scraping_cycle
    existing_hackathons, \* run_scraping_cycle: result of get_existing_hackathons
    all_hackathons,      \* scrape_all_platforms: the concatenated platform results
    new_hackathons,      \* scrape_all_platforms: the filtered result (the delta)
    res,                 \* per platform: what its scrape operation returned this cycle
    saved,               \* this cycle's save_hackathons: "none", "ok" or "failed"
    exit,                \* how run_scraping_cycle ended: "none", "returned", "raised"
    start,               \* the store (file, rows) when the cycle started
    prev,                \* summary of the previous finished cycle
    ncycles,             \* number of cycles started
    call,                \* the last direct call of the store API and its result
    is_monitoring,       \* WebHackathonMonitor.is_monitoring
    threads,             \* the threads WebHackathonMonitor has started, in order
    browsers,            \* browser instances get_webdriver made that were not quit
    headers,             \* row 1 of the sheet, while the store file is a workbook
    sent                 \* the notifications this cycle has sent, in order

\* the state of the web dashboard
web == <<is_monitoring, threads>>

vars == <<file, rows, config, pc, existing_hackathons, all_hackathons,
          new_hackathons, res, saved, exit, start, prev, ncycles, call,
          is_monitoring, threads, browsers, headers, sent>>

-----------------------------------------------------------------------------
(* Bounds of the model *)

\* cards, text matches and JSON entries a fetched page holds
MaxItems == 1
\* cycles the scheduler runs in SpecCycles
MaxCycles == 2
\* cards a DevPost page holds in SpecBig
MaxCards == 3
\* records per direct save_hackathons call, and direct calls per behaviour
MaxBatch == 2
MaxCalls == 3
\* cards a DevPost page holds in SpecCards
MaxLong == 17
\* heading elements a rendered page holds in SpecScraper
MaxTitles == 2
\* different strings the patterns match in a text in SpecText
MaxMatches == 7

-----------------------------------------------------------------------------
(* Values *)

None == "<None>"

Platforms == {"DevPost", "MLH", "Unstop"}

A1 == "AI Hack Days"
A2 == "ai hack days"
G1 == "Hackathon"
E1 == ""
N1 == "Code Sprint"
D1 == "Global Hack Week"
P1 == "HackMIT Boston"
S1 == "Sponsors"

\* str.lower() on the names of the model
Lower(s) ==
    CASE s = A1 -> A2
      [] s = G1 -> "hackathon"
      [] s = N1 -> "code sprint"
      [] s = D1 -> "global hack week"
      [] s = P1 -> "hackmit boston"
      [] s = S1 -> "sponsors"
      [] s = "DevPost" -> "devpost"
      [] s = "MLH" -> "mlh"
      [] s = "Unstop" -> "unstop"
      [] s = "AI Innovation Challenge 2025" -> "ai innovation challenge 2025"
      [] s = "Global Climate Tech Hackathon" -> "global climate tech hackathon"
      [] s = "FinTech Future Hack" -> "fintech future hack"
      [] s = "MLH Local Hack Day" -> "mlh local hack day"
      [] s = "Global Hack Week: Data Science" -> "global hack week: data science"
      [] s = "MLH Fellowship Hackathon" -> "mlh fellowship hackathon"
      [] s = "Smart India Hackathon 2025" -> "smart india hackathon 2025"
      [] s = "Startup Weekend Mumbai" -> "startup weekend mumbai"
      [] s = "Code for Good Challenge" -> "code for good challenge"
      [] OTHER -> s

\* datetime.now().strftime(...) at cycle n
now(n) == "2025-01-0" \o ToString(n)

\* all sequences over S of length at most n
RECURSIVE SeqsUpTo(_, _)
SeqsUpTo(S, n) ==
    IF n = 0 THEN {<<>>}
    ELSE LET shorter == SeqsUpTo(S, n - 1)
         IN  shorter \cup {Append(s, x) : s \in {t \in shorter : Len(t) = n - 1}, x \in S}

\* the first n elements of s (Python s[:n])
Take(s, n) == SubSeq(s, 1, IF Len(s) < n THEN Len(s) ELSE n)

Range(s) == {s[i] : i \in DOMAIN s}

\* str.strip() for blanks
RECURSIVE LStrip(_)
LStrip(s) == IF Len(s) > 0 /\ SubSeq(s, 1, 1) = " " THEN LStrip(Tail(s)) ELSE s

RECURSIVE RStrip(_)
RStrip(s) ==
    IF Len(s) > 0 /\ SubSeq(s, Len(s), Len(s)) = " " THEN RStrip(SubSeq(s, 1, Len(s) - 1)) ELSE s

Strip(s) == RStrip(LStrip(s))

\* a set as a sequence, in some fixed order
RECURSIVE SetToSeq(_)
SetToSeq(S) == IF S = {} THEN <<>> ELSE LET x == CHOOSE y \in S : TRUE IN <<x>> \o SetToSeq(S \ {x})

-----------------------------------------------------------------------------
(* storage/excel_manager.py *)

\* self.headers
Headers == <<"Name", "Platform", "Link", "Start Date", "Tags", "Scraped At", "Status">>

\* A cell value after ws.cell(value=v), wb.save and load_workbook: openpyxl
\* writes the empty string as an empty cell, which loads as None.
Cell(v) == IF v = "" THEN None ELSE v

\* One row written by the loop body of save_hackathons
RowOf(h) ==
    [name       |-> Cell(h.name),
     platform   |-> Cell(h.platform),
     link       |-> Cell(h.link),
     start_date |-> Cell(h.start_date),
     tags       |-> Cell(h.tags),
     scraped_at |-> Cell(h.scraped_at),
     status     |-> "New"]

WrittenRows(hackathons) == [i \in DOMAIN hackathons |-> RowOf(hackathons[i])]

\* row[0] is truthy
Truthy(v) == v # None /\ v # ""

\* the loop of get_existing_hackathons, had it stopped at a row without a name
RECURSIVE SelectRowsUntilBlank(_)
SelectRowsUntilBlank(rs) ==
    IF rs = <<>> THEN <<>>
    ELSE IF Truthy(Head(rs).name)
         THEN <<Head(rs)>> \o SelectRowsUntilBlank(Tail(rs))
         ELSE <<>>

RECURSIVE SelectRows(_)
SelectRows(rs) ==
    IF rs = <<>> THEN <<>>
    ELSE IF Truthy(Head(rs).name)
         THEN <<Head(rs)>> \o SelectRows(Tail(rs))
         ELSE SelectRows(Tail(rs))

\* the files load_workbook raises on: "corrupt" has lost its rows,
\* "unreadable" still holds them (an archive a spreadsheet program can
\* repair, a workbook with parts openpyxl rejects, a file that cannot be
\* opened for reading at the moment)
Unloadable == {"corrupt", "unreadable"}

\* get_existing_hackathons without its try/except: load_workbook's exception
\* leaves the method
get_existing_hackathons_unguarded(f, rs) ==
    IF f = "missing" THEN [recs |-> <<>>, raised |-> FALSE]
    ELSE IF f \in Unloadable THEN [recs |-> <<>>, raised |-> TRUE]
    ELSE [recs |-> SelectRows(rs), raised |-> FALSE]

\* get_existing_hackathons: [recs, raised]
get_existing_hackathons(f, rs) ==
    IF f = "missing" THEN [recs |-> <<>>, raised |-> FALSE]
    ELSE IF f \in Unloadable THEN [recs |-> <<>>, raised |-> FALSE]
    ELSE [recs |-> SelectRows(rs), raised |-> FALSE]

\* the outcomes of the file system during save_hackathons
IoOutcomes == {"ok", "denied", "torn"}

\* save_hackathons: [file, rows, raised].  load_workbook raises on a missing or
\* unreadable file.  wb.save opens the target for writing and then writes the
\* archive: "denied" fails before the file is opened, "torn" fails after it
\* was truncated.
save_hackathons(f, rs, hackathons, io) ==
    IF f # "ok" THEN [file |-> f, rows |-> rs, raised |-> TRUE]
    ELSE IF io = "ok"
         THEN [file |-> "ok", rows |-> rs \o WrittenRows(hackathons), raised |-> FALSE]
    ELSE IF io = "denied"
         THEN [file |-> "ok", rows |-> rs, raised |-> TRUE]
    ELSE [file |-> "corrupt", rows |-> <<>>, raised |-> TRUE]

\* the least element of a set of row numbers
MinOf(S) == CHOOSE x \in S : \A y \in S : x <= y

\* update_hackathon_status: [file, rows, raised].  The first row whose name
\* cell equals hackathon_name gets the status; wb.save runs whether a row
\* was found or not; the except clause logs and the method returns
update_hackathon_status(f, rs, hackathon_name, status, io) ==
    LET hits    == {i \in DOMAIN rs : rs[i].name = hackathon_name}
        updated == IF hits = {} THEN rs ELSE [rs EXCEPT ![MinOf(hits)].status = Cell(status)]
    IN  IF f # "ok" THEN [file |-> f, rows |-> rs, raised |-> FALSE]
        ELSE IF io = "ok" THEN [file |-> "ok", rows |-> updated, raised |-> FALSE]
        ELSE IF io = "denied" THEN [file |-> "ok", rows |-> rs, raised |-> FALSE]
        ELSE [file |-> "corrupt", rows |-> <<>>, raised |-> FALSE]

\* create_new_excel_file: [file, rows, headers, raised]; a workbook with the
\* header row alone is saved over the path, and a failure is re-raised
create_new_excel_file(f, rs, hdr, io) ==
    IF io = "ok" THEN [file |-> "ok", rows |-> <<>>, headers |-> Headers, raised |-> FALSE]
    ELSE IF io = "denied" THEN [file |-> f, rows |-> rs, headers |-> hdr, raised |-> TRUE]
    ELSE [file |-> "corrupt", rows |-> <<>>, headers |-> hdr, raised |-> TRUE]

\* validate_excel_structure, had it raised on a header row that differs
validate_excel_structure_strict(f, rs, hdr, io) ==
    IF f \in Unloadable THEN create_new_excel_file(f, rs, hdr, io)
    ELSE [file |-> f, rows |-> rs, headers |-> hdr, raised |-> hdr # Headers]

\* validate_excel_structure: a workbook that loads is left as it is, with a
\* warning when row 1 is not self.headers (max_row is never 0); when
\* load_workbook raises, the except clause creates the file anew
validate_excel_structure(f, rs, hdr, io) ==
    IF f \in Unloadable THEN create_new_excel_file(f, rs, hdr, io)
    ELSE [file |-> f, rows |-> rs, headers |-> hdr, raised |-> FALSE]

\* ensure_excel_file, called by ExcelManager.__init__
ensure_excel_file(f, rs, hdr, io) ==
    IF f = "missing" THEN create_new_excel_file(f, rs, hdr, io)
    ELSE validate_excel_structure(f, rs, hdr, io)

-----------------------------------------------------------------------------
(* scrapers/hackathon_scraper.py *)

SampleNames ==
    [DevPost |-> <<"AI Innovation Challenge 2025", "Global Climate Tech Hackathon",
                   "FinTech Future Hack">>,
     MLH     |-> <<"MLH Local Hack Day", "Global Hack Week: Data Science",
                   "MLH Fellowship Hackathon">>,
     Unstop  |-> <<"Smart India Hackathon 2025", "Startup Weekend Mumbai",
                   "Code for Good Challenge">>]

SampleTags ==
    [DevPost |-> <<"AI, Machine Learning, DevPost", "Climate, Sustainability, DevPost",
                   "Finance, Blockchain, DevPost">>,
     MLH     |-> <<"MLH Official, Community", "Data Science, MLH, Week-long",
                   "Fellowship, MLH Official">>,
     Unstop  |-> <<"India, Government, Innovation", "Startup, Mumbai, Weekend",
                   "Social Good, Coding, NGO">>]

create_sample_hackathons(platform, t) ==
    [i \in 1..Len(SampleNames[platform]) |->
        [name       |-> SampleNames[platform][i],
         platform   |-> platform,
         link       |-> "https://" \o Lower(platform) \o ".com/hackathons",
         start_date |-> "TBD",
         tags       |-> SampleTags[platform][i],
         scraped_at |-> t]]

\* get_webdriver: Chrome first, then Edge, else None
get_webdriver(chrome, edge) ==
    IF chrome THEN "chrome" ELSE IF edge THEN "edge" ELSE None

\* what a scrape operation hands back: the records, the tier that produced
\* them, whether a page was fetched, the driver it got, the calls it made on
\* the driver, and whether an exception left the operation
Result(recs, tier, fetch, driver) ==
    [recs |-> recs, tier |-> tier, fetch |-> fetch, driver |-> driver,
     calls |-> <<>>, raised |-> FALSE]

\* the browser instances an operation leaves open: it got a driver and never
\* called quit on it
Open(driver, calls) ==
    IF driver \notin {None, "unused"} /\ "quit" \notin Range(calls) THEN 1 ELSE 0

NoRes == Result(<<>>, "none", "none", "unused")

Raise(r) == [r EXCEPT !.raised = TRUE]

\* scrape_devpost keeps the first 15 cards
CardLimit == 15

\* the cards a DevPost page can hold: h3 text, href, and whether one of the
\* lookups on the card raises
Card(title, href, exc) ==
    [title |-> title, href |-> href, date |-> "", themes |-> "", exc |-> exc]

DevCards ==
    {Card(A1, "/h", FALSE), Card(A2, "", FALSE), Card(G1, "/g", FALSE), Card(A1, "/h", TRUE)}

\* cards that look like DevPost's sample records: the sample's name, an href
\* that gives the sample's link, 'TBD' as submission period, and theme
\* labels that spell the sample's tags
LikeCards ==
    {[title |-> "AI Innovation Challenge 2025", href |-> "/hackathons", date |-> "TBD",
      themes |-> "AI, Machine Learning, DevPost", exc |-> FALSE],
     [title |-> "AI Innovation Challenge 2025", href |-> "/hackathons",
      date |-> "Jan 15 - 17, 2025", themes |-> "", exc |-> FALSE]}

\* how the rendered fetch of scrape_devpost goes: "ok"; "nav" when
\* driver.get raises; "parse" when BeautifulSoup raises on the page source;
\* "find" when find_all raises after the driver was quit
Renders == {"ok", "nav", "parse", "find"}

\* the outcomes of DevPost's fetch: the HTTP response (or "timeout" when
\* session.get raises, "garbled" when the 200 body makes the parser raise), the
\* browsers the host has, how rendering goes, and the cards found in the page
\* that gets parsed (the rendered DOM, or the static HTML when there is no
\* driver or it fails)
DevPagesOf(cards, n) ==
    {[resp |-> r, chrome |-> FALSE, edge |-> FALSE, render |-> "ok", cards |-> <<>>] :
        r \in {"404", "timeout", "garbled"}}
    \cup
    {[resp |-> "200", chrome |-> h[1], edge |-> h[2], render |-> h[3], cards |-> c] :
        h \in {<<TRUE, TRUE, r>> : r \in Renders} \cup {<<FALSE, TRUE, r>> : r \in Renders}
                \cup {<<FALSE, FALSE, "ok">>},
        c \in SeqsUpTo(cards, n)}

DevPages(n) == DevPagesOf(DevCards, n)

\* the same without the quit of the except clause
devpost_driver_calls_noquit(render) ==
    CASE render = "ok"    -> <<"get", "page_source", "quit">>
      [] render = "nav"   -> <<"get">>
      [] render = "parse" -> <<"get", "page_source">>
      [] render = "find"  -> <<"get", "page_source", "quit">>

\* the calls scrape_devpost makes on its driver (lines 113-129): quit at the
\* end of the try, and quit again in the except clause when something in the
\* try raised
devpost_driver_calls(render) ==
    CASE render = "ok"    -> <<"get", "page_source", "quit">>
      [] render = "nav"   -> <<"get", "quit">>
      [] render = "parse" -> <<"get", "page_source", "quit">>
      [] render = "find"  -> <<"get", "page_source", "quit", "quit">>

\* the record built from one card (lines 150-228); a card whose title is
\* shorter than 5 or generic is skipped, a card that raises is skipped
DevCardSkipped(card) ==
    \/ card.exc
    \/ Len(card.title) < 5
    \/ Lower(card.title) \in {"unknown", "hackathon", "challenge"}

\* parse_date on the submission periods of the model: the first pattern
\* that matches gives its match, else the text comes back as it is
parse_date(date_text) ==
    CASE date_text = "" -> ""
      [] date_text = "Jan 15 - 17, 2025" -> "Jan 15"
      [] OTHER -> date_text

\* the joined text of the card's theme labels as it is
DevTagsPlain(themes) == themes

\* ', '.join(themes) after 'DevPost' was put in front; themes is the joined
\* text of the card's theme labels (the cards of the model show no prize,
\* status or participants)
DevTags(themes) == IF themes = "" THEN "DevPost" ELSE "DevPost, " \o themes

DevCardRecord(card, t) ==
    [name       |-> card.title,
     platform   |-> "DevPost",
     link       |-> IF card.href # "" THEN "https://devpost.com" \o card.href ELSE "",
     start_date |-> parse_date(card.date),
     tags       |-> DevTags(card.themes),
     scraped_at |-> t]

\* the loop over the cards without the try/except of its body: a card
\* that raises ends the loop
RECURSIVE DevCardLoopUnguarded(_, _)
DevCardLoopUnguarded(cards, t) ==
    IF cards = <<>> THEN <<>>
    ELSE IF Head(cards).exc THEN <<>>
    ELSE IF DevCardSkipped(Head(cards))
         THEN DevCardLoopUnguarded(Tail(cards), t)
         ELSE <<DevCardRecord(Head(cards), t)>> \o DevCardLoopUnguarded(Tail(cards), t)

RECURSIVE DevCardLoop(_, _)
DevCardLoop(cards, t) ==
    IF cards = <<>> THEN <<>>
    ELSE IF DevCardSkipped(Head(cards))
         THEN DevCardLoop(Tail(cards), t)
         ELSE <<DevCardRecord(Head(cards), t)>> \o DevCardLoop(Tail(cards), t)

\* the body of scrape_devpost's outer try
devpost_try(page, t) ==
    LET driver == get_webdriver(page.chrome, page.edge)
        hackathons == DevCardLoop(Take(page.cards, CardLimit), t)
    IN  IF page.resp \in {"timeout", "garbled"}
        THEN Raise(Result(<<>>, "none", IF page.resp = "timeout" THEN "failed" ELSE "ok", "unused"))
        ELSE IF page.resp # "200"
        THEN Result(create_sample_hackathons("DevPost", t), "sample", "failed", "unused")
        ELSE LET calls == IF driver = None THEN <<>> ELSE devpost_driver_calls(page.render)
             IN  IF hackathons # <<>>
                 THEN [Result(hackathons, "structural", "ok", driver) EXCEPT !.calls = calls]
                 ELSE [Result(create_sample_hackathons("DevPost", t), "sample", "ok", driver)
                          EXCEPT !.calls = calls]

\* scrape_devpost without its outer try/except
scrape_devpost_unguarded(page, t) == devpost_try(page, t)

\* scrape_devpost: the outer except returns the sample records
scrape_devpost(page, t) ==
    LET r == devpost_try(page, t)
    IN  IF r.raised
        THEN [Result(create_sample_hackathons("DevPost", t), "sample", r.fetch, r.driver)
                 EXCEPT !.calls = r.calls]
        ELSE r

\* extract_hackathons_from_text keeps 5 names
TextLimit == 5

\* the strings the three patterns can match in a page's text
TextMatches == {A1, A2, G1}

\* matches that are names of sample records
LikeMatches == {"MLH Local Hack Day", "Smart India Hackathon 2025"}

\* found_names: the stripped matches longer than 10 and shorter than 100
\* characters, as a set
found_names(matches) ==
    {c \in {Strip(m) : m \in Range(matches)} : Len(c) > 10 /\ Len(c) < 100}

\* list(found_names): a Python set is listed in an order the program does
\* not choose
RECURSIVE Listings(_)
Listings(S) ==
    IF S = {} THEN {<<>>}
    ELSE UNION {{<<x>> \o l : l \in Listings(S \ {x})} : x \in S}

\* extract_hackathons_from_text without the limit of 5
extract_hackathons_from_text_nolimit(listing, platform, t) ==
    [i \in 1..Len(listing) |->
            [name       |-> listing[i],
             platform   |-> platform,
             link       |-> "https://" \o Lower(platform) \o ".com",
             start_date |-> "",
             tags       |-> platform \o ", Extracted",
             scraped_at |-> t]]

\* extract_hackathons_from_text, given the listing of found_names
extract_hackathons_from_text(listing, platform, t) ==
    LET names == Take(listing, TextLimit)
    IN  [i \in 1..Len(names) |->
            [name       |-> names[i],
             platform   |-> platform,
             link       |-> "https://" \o Lower(platform) \o ".com",
             start_date |-> "",
             tags       |-> platform \o ", Extracted",
             scraped_at |-> t]]

\* the listings the text of a page with at most n matches can give
TextListingsOf(matches, n) == UNION {Listings(found_names(m)) : m \in SeqsUpTo(matches, n)}

TextListings(n) == TextListingsOf(TextMatches, n)

\* scrape_mlh and scrape_unstop read at most 10 entries of a JSON list
JsonLimit == 10

\* 'hack' in name.lower() or 'competition' in name.lower()
HasKeyword(name) == Lower(name) \in {A2, "hackathon", "smart india hackathon 2025"}

\* the entries of MLH's JSON list: a dict with a name, or something that is
\* no dict (event.get raises)
Event(dict, name) == [dict |-> dict, name |-> name, url |-> None, start |-> None]

MlhEvents == {Event(TRUE, A1), Event(TRUE, E1), Event(FALSE, None)}

\* an event that looks like MLH's first sample record
LikeEvents ==
    {[dict |-> TRUE, name |-> "MLH Local Hack Day", url |-> "https://mlh.com/hackathons",
      start |-> "TBD"]}

\* event.get(key, default): None stands for a key the event does not have
MlhEventRecord(event, t) ==
    [name       |-> event.name,
     platform   |-> "MLH",
     link       |-> IF event.url = None THEN "https://mlh.io" ELSE event.url,
     start_date |-> IF event.start = None THEN "" ELSE event.start,
     tags       |-> "MLH Official",
     scraped_at |-> t]

\* the for loop over data[:10]: [recs, exc], exc when an entry raised
RECURSIVE MlhJsonLoop(_, _)
MlhJsonLoop(data, t) ==
    IF data = <<>> THEN [recs |-> <<>>, exc |-> FALSE]
    ELSE IF ~Head(data).dict THEN [recs |-> <<>>, exc |-> TRUE]
    ELSE LET rest == MlhJsonLoop(Tail(data), t)
         IN  [recs |-> <<MlhEventRecord(Head(data), t)>> \o rest.recs, exc |-> rest.exc]

\* the entries of data['data'] in Unstop's JSON: a dict with a title (a title
\* of None makes name.lower() raise), or something that is no dict
Item(dict, title) == [dict |-> dict, title |-> title, start |-> None]

UnstopItems == {Item(TRUE, A2), Item(TRUE, N1), Item(TRUE, None), Item(FALSE, None)}

\* an item that looks like Unstop's first sample record
LikeItems == {[dict |-> TRUE, title |-> "Smart India Hackathon 2025", start |-> "TBD"]}

UnstopItemRecord(item, t) ==
    [name       |-> item.title,
     platform   |-> "Unstop",
     link       |-> "https://unstop.com/competition/",
     start_date |-> IF item.start = None THEN "" ELSE item.start,
     tags       |-> "Unstop, Competition",
     scraped_at |-> t]

RECURSIVE UnstopJsonLoop(_, _)
UnstopJsonLoop(data, t) ==
    IF data = <<>> THEN [recs |-> <<>>, exc |-> FALSE]
    ELSE IF ~Head(data).dict THEN UnstopJsonLoop(Tail(data), t)
    ELSE IF Head(data).title = None THEN [recs |-> <<>>, exc |-> TRUE]
    ELSE LET rest == UnstopJsonLoop(Tail(data), t)
         IN  IF HasKeyword(Head(data).title)
             THEN [recs |-> <<UnstopItemRecord(Head(data), t)>> \o rest.recs, exc |-> rest.exc]
             ELSE rest

\* One request of the URL loop of scrape_mlh / scrape_unstop.  url is the
\* request's outcome: status ("timeout" when session.get raises), for an API
\* URL the JSON body, and the listing of
\* the names found in the text.  Gives [recs, tier, done]: done when the loop
\* returns here.
UrlStep(platform, api, url, t) ==
    LET js == IF ~api \/ ~url.json.list THEN [recs |-> <<>>, exc |-> FALSE]
              ELSE IF platform = "MLH" THEN MlhJsonLoop(Take(url.json.data, JsonLimit), t)
              ELSE UnstopJsonLoop(Take(url.json.data, JsonLimit), t)
        text == extract_hackathons_from_text(url.listing, platform, t)
    IN  IF url.status # "200" THEN [recs |-> <<>>, tier |-> "none", done |-> FALSE]
        ELSE IF js.recs # <<>> /\ ~js.exc THEN [recs |-> js.recs, tier |-> "json", done |-> TRUE]
        ELSE IF js.recs \o text # <<>>
             THEN [recs |-> js.recs \o text,
                   tier |-> IF js.recs = <<>> THEN "text" ELSE "mixed", done |-> TRUE]
        ELSE [recs |-> <<>>, tier |-> "none", done |-> FALSE]

\* 'api' in url, for the i-th URL of urls_to_try
ApiUrl(platform, i) == IF platform = "MLH" THEN i = 3 ELSE i = 1

\* a response body as JSON: a list of entries, or NoJson when response.json()
\* raises or the value is no list
NoJson == [list |-> FALSE, data |-> <<>>]

JsonBodies(entries, n) ==
    {NoJson} \cup {[list |-> TRUE, data |-> d] : d \in SeqsUpTo(entries, n)}

\* the outcomes one request can have, for the JSON entries and the text
\* matches a page can hold
UrlOutcomes(platform, i, n, entries, matches) ==
    {[status |-> st, json |-> NoJson, listing |-> <<>>] : st \in {"404", "timeout"}}
    \cup
    {[status |-> "200", json |-> j, listing |-> l] :
        j \in (IF ApiUrl(platform, i) THEN JsonBodies(entries, n) ELSE {NoJson}),
        l \in TextListingsOf(matches, n)}

\* the outcomes of the requests a scrape makes, in order: the loop stops at
\* the first URL that yields records, so later URLs are not requested
UrlPagesOf(platform, n, entries, matches) ==
    LET U(i)   == UrlOutcomes(platform, i, n, entries, matches)
        Hit(i) == {u \in U(i) : UrlStep(platform, ApiUrl(platform, i), u, "").done}
        Dud(i) == U(i) \ Hit(i)
    IN  {<<h>> : h \in Hit(1)}
        \cup {<<d, h>> : d \in Dud(1), h \in Hit(2)}
        \cup {<<d, e, u>> : d \in Dud(1), e \in Dud(2), u \in U(3)}

UrlPages(platform, n) ==
    UrlPagesOf(platform, n, IF platform = "MLH" THEN MlhEvents ELSE UnstopItems, TextMatches)

\* the for loop over urls_to_try without the sample fallback after it
RECURSIVE UrlLoop_nosample(_, _, _, _)
UrlLoop_nosample(platform, page, i, t) ==
    IF i > Len(page)
    THEN Result(<<>>, "sample",
                IF \E k \in DOMAIN page : page[k].status = "200" THEN "ok" ELSE "failed",
                "unused")
    ELSE LET s == UrlStep(platform, ApiUrl(platform, i), page[i], t)
         IN  IF s.done THEN Result(s.recs, s.tier, "ok", "unused")
             ELSE UrlLoop_nosample(platform, page, i + 1, t)

\* the for loop over urls_to_try and the sample fallback after it
RECURSIVE UrlLoop(_, _, _, _)
UrlLoop(platform, page, i, t) ==
    IF i > Len(page)
    THEN Result(create_sample_hackathons(platform, t), "sample",
                IF \E k \in DOMAIN page : page[k].status = "200" THEN "ok" ELSE "failed",
                "unused")
    ELSE LET s == UrlStep(platform, ApiUrl(platform, i), page[i], t)
         IN  IF s.done THEN Result(s.recs, s.tier, "ok", "unused")
             ELSE UrlLoop(platform, page, i + 1, t)

scrape_mlh(page, t) == UrlLoop("MLH", page, 1, t)

scrape_unstop(page, t) == UrlLoop("Unstop", page, 1, t)

\* inspect_and_scrape_mlh keeps 10 titles, inspect_and_scrape_unstop 15
TitleLimit == 10
CompLimit == 15

\* any(keyword in text.lower() ...) for the keywords of inspect_and_scrape_mlh
MlhKeyword(text) == Lower(text) \in {A2, "hackathon", "global hack week", "hackmit boston"}

\* the h1..h4 elements of MLH's rendered page: the text, the mode the parent
\* container shows, what the city pattern finds in the parent's text, the
\* href of the parent's first link, and whether a lookup on the element raises
MlhTitles ==
    {[text |-> D1, mode |-> "Digital Only", city |-> "", href |-> "/d", exc |-> FALSE],
     [text |-> P1, mode |-> "In-Person", city |-> "Boston In", href |-> "", exc |-> FALSE],
     [text |-> S1, mode |-> "In-Person", city |-> "", href |-> "", exc |-> FALSE],
     [text |-> D1, mode |-> "Digital Only", city |-> "", href |-> "/d", exc |-> TRUE]}

\* potential_titles: text longer than 5, shorter than 100, with a keyword
MlhPotential(title) ==
    Len(title.text) > 5 /\ Len(title.text) < 100 /\ MlhKeyword(title.text)

\* location_text, from the parent's text: 'digital' in it, else the city
\* pattern
MlhLocation(title) == IF title.mode = "Digital Only" THEN "Digital" ELSE title.city

MlhTitleRecord(title, t) ==
    [name       |-> title.text,
     platform   |-> "MLH",
     link       |-> IF title.href # "" THEN "https://mlh.io" \o title.href
                    ELSE "https://mlh.io/seasons/2025/events",
     start_date |-> "",
     tags       |-> IF MlhLocation(title) # "" THEN "MLH Official, " \o MlhLocation(title)
                    ELSE "MLH Official",
     scraped_at |-> t]

RECURSIVE SelectTitles(_)
SelectTitles(titles) ==
    IF titles = <<>> THEN <<>>
    ELSE IF MlhPotential(Head(titles))
         THEN <<Head(titles)>> \o SelectTitles(Tail(titles))
         ELSE SelectTitles(Tail(titles))

\* the loop over potential_titles[:10]: a title that raises is skipped
RECURSIVE MlhTitleLoop(_, _)
MlhTitleLoop(titles, t) ==
    IF titles = <<>> THEN <<>>
    ELSE IF Head(titles).exc THEN MlhTitleLoop(Tail(titles), t)
    ELSE <<MlhTitleRecord(Head(titles), t)>> \o MlhTitleLoop(Tail(titles), t)

\* the outcomes of inspect_and_scrape_mlh's rendered fetch: the browsers of the
\* host, whether driver.get raises ("error"), and the titles of the page
MlhInspectPages(n) ==
    {[chrome |-> h[1], edge |-> h[2], nav |-> h[3], titles |-> c] :
        h \in {<<TRUE, FALSE, "ok">>, <<FALSE, TRUE, "ok">>, <<FALSE, FALSE, "ok">>},
        c \in SeqsUpTo(MlhTitles, n)}
    \cup
    {[chrome |-> TRUE, edge |-> FALSE, nav |-> "error", titles |-> <<>>]}

\* inspect_and_scrape_mlh: the finally clause quits the driver on every path
\* on which one was made
inspect_and_scrape_mlh(page, t) ==
    LET driver == get_webdriver(page.chrome, page.edge)
    IN  IF driver = None THEN Result(<<>>, "none", "none", driver)
        ELSE IF page.nav = "error"
        THEN [Result(<<>>, "none", "failed", driver) EXCEPT !.calls = <<"get", "quit">>]
        ELSE [Result(MlhTitleLoop(Take(SelectTitles(page.titles), TitleLimit), t),
                     "structural", "ok", driver)
                 EXCEPT !.calls = <<"get", "execute_script", "page_source", "quit">>]

\* unstop_fallback_scraper keeps 5 matches of each pattern
FallbackLimit == 5

\* the outcomes of one request of unstop_fallback_scraper: the status
\* ("timeout" when session.get raises), the titles of the JSON items when the
\* API answers JSON, whether the page text holds 'hackathon', and the matches
\* of the two patterns
FallbackOutcomes ==
    {[status |-> "404", titles |-> <<>>, word |-> FALSE, m1 |-> <<>>, m2 |-> <<>>],
     [status |-> "timeout", titles |-> <<>>, word |-> FALSE, m1 |-> <<>>, m2 |-> <<>>],
     [status |-> "200", titles |-> <<A1, N1>>, word |-> FALSE, m1 |-> <<>>, m2 |-> <<>>],
     [status |-> "200", titles |-> <<>>, word |-> TRUE, m1 |-> <<A1>>, m2 |-> <<A1, "Hack">>],
     [status |-> "200", titles |-> <<>>, word |-> FALSE, m1 |-> <<A1>>, m2 |-> <<>>]}

\* 'hack' in name.lower()
HasHack(name) == Lower(name) \in {A2, "hackathon", "global hack week", "hackmit boston", "hack"}

FallbackRecord(name, link, t) ==
    [name       |-> name,
     platform   |-> "Unstop",
     link       |-> link,
     start_date |-> "",
     tags       |-> "Unstop, Hackathon",
     scraped_at |-> t]

RECURSIVE FallbackJsonLoop(_, _)
FallbackJsonLoop(titles, t) ==
    IF titles = <<>> THEN <<>>
    ELSE IF HasHack(Head(titles))
         THEN <<FallbackRecord(Head(titles), "https://unstop.com/hackathons/", t)>>
              \o FallbackJsonLoop(Tail(titles), t)
         ELSE FallbackJsonLoop(Tail(titles), t)

RECURSIVE FallbackTextLoop(_, _, _)
FallbackTextLoop(matches, link, t) ==
    IF matches = <<>> THEN <<>>
    ELSE IF Len(Head(matches)) > 5 /\ Len(Head(matches)) < 100
         THEN <<FallbackRecord(Head(matches), link, t)>> \o FallbackTextLoop(Tail(matches), link, t)
         ELSE FallbackTextLoop(Tail(matches), link, t)

FallbackUrl(i) == <<"https://unstop.com/api/public/opportunity/search-new?opportunity=hackathons",
                    "https://unstop.com/hackathons", "https://unstop.com/competitions">>[i]

\* unstop_fallback_scraper: the loop over its three URLs; it stops at the
\* first URL that gives records and raises nothing
RECURSIVE unstop_fallback_scraper(_, _, _)
unstop_fallback_scraper(fb, i, t) ==
    IF i > Len(fb) THEN <<>>
    ELSE LET u    == fb[i]
             json == IF i = 1 THEN FallbackJsonLoop(Take(u.titles, JsonLimit), t) ELSE <<>>
             text == IF u.word
                     THEN FallbackTextLoop(Take(u.m1, FallbackLimit) \o Take(u.m2, FallbackLimit),
                                           FallbackUrl(i), t)
                     ELSE <<>>
         IN  IF u.status # "200" THEN unstop_fallback_scraper(fb, i + 1, t)
             ELSE IF json # <<>> THEN json
             ELSE IF text # <<>> THEN text
             ELSE unstop_fallback_scraper(fb, i + 1, t)

\* the outcomes of the three requests of unstop_fallback_scraper
Fallbacks == {fb \in SeqsUpTo(FallbackOutcomes, 3) : Len(fb) = 3}

\* any(keyword in text.lower() ...) for the keywords of inspect_and_scrape_unstop
CompKeyword(text) == Lower(text) \in {A2, "hackathon", "code sprint"}

\* the heading and clickable elements of Unstop's rendered page: the text,
\* the href found for it, the "N days left" of the parent's text, and whether
\* a lookup raises (no parent here shows a registration count or a prize)
UnstopComps ==
    {[text |-> A1, href |-> "/c", days |-> "3 days left", exc |-> FALSE],
     [text |-> A2, href |-> "",   days |-> "",            exc |-> FALSE],
     [text |-> S1, href |-> "",   days |-> "",            exc |-> FALSE],
     [text |-> G1, href |-> "",   days |-> "",            exc |-> TRUE]}

CompPotential(comp) ==
    Len(comp.text) > 5 /\ Len(comp.text) < 150 /\ CompKeyword(comp.text)

\* unique_competitions: the first element of each lower-cased text
RECURSIVE UniqueComps(_, _)
UniqueComps(comps, seen) ==
    IF comps = <<>> THEN <<>>
    ELSE IF ~CompPotential(Head(comps)) \/ Lower(Head(comps).text) \in seen
         THEN UniqueComps(Tail(comps), seen)
         ELSE <<Head(comps)>> \o UniqueComps(Tail(comps), seen \cup {Lower(Head(comps).text)})

CompRecord(comp, t) ==
    [name       |-> comp.text,
     platform   |-> "Unstop",
     link       |-> IF comp.href # "" THEN "https://unstop.com" \o comp.href
                    ELSE "https://unstop.com/hackathons",
     start_date |-> comp.days,
     tags       |-> "Unstop"
                    \o (IF comp.days # "" THEN ", " \o comp.days ELSE "")
                    \o (IF HasHack(comp.text) THEN ", Hackathon" ELSE ""),
     scraped_at |-> t]

RECURSIVE CompLoop(_, _)
CompLoop(comps, t) ==
    IF comps = <<>> THEN <<>>
    ELSE IF Head(comps).exc THEN CompLoop(Tail(comps), t)
    ELSE <<CompRecord(Head(comps), t)>> \o CompLoop(Tail(comps), t)

\* the outcomes of inspect_and_scrape_unstop's rendered fetch: the browsers of
\* the host; nav is "error" when driver.get raises, "blocked" when the page
\* holds neither 'hackathon' nor 'competition'; the elements of the page; and
\* the outcomes of the fallback's requests, which are made only when the page
\* gave no record or navigation failed
UnstopInspectPages(n) ==
    {[chrome |-> h[1], edge |-> h[2], nav |-> h[3], comps |-> c, fb |-> f] :
        h \in {<<TRUE, FALSE, "ok">>, <<FALSE, TRUE, "ok">>},
        c \in {d \in SeqsUpTo(UnstopComps, n) : CompLoop(UniqueComps(d, {}), "") = <<>>},
        f \in Fallbacks}
    \cup
    {[chrome |-> h[1], edge |-> h[2], nav |-> h[3], comps |-> c, fb |-> <<>>] :
        h \in {<<TRUE, FALSE, "ok">>, <<FALSE, TRUE, "ok">>},
        c \in {d \in SeqsUpTo(UnstopComps, n) : CompLoop(UniqueComps(d, {}), "") # <<>>}}
    \cup
    {[chrome |-> TRUE, edge |-> FALSE, nav |-> "error", comps |-> <<>>, fb |-> f] :
        f \in Fallbacks}
    \cup
    {[chrome |-> h[1], edge |-> h[2], nav |-> h[3], comps |-> <<>>, fb |-> <<>>] :
        h \in {<<FALSE, FALSE, "ok">>, <<TRUE, FALSE, "blocked">>}}

\* inspect_and_scrape_unstop: the finally clause quits the driver on every
\* path on which one was made
inspect_and_scrape_unstop(page, t) ==
    LET driver   == get_webdriver(page.chrome, page.edge)
        fallback == unstop_fallback_scraper(page.fb, 1, t)
        found    == CompLoop(Take(UniqueComps(page.comps, {}), CompLimit), t)
    IN  IF driver = None THEN Result(<<>>, "none", "none", driver)
        ELSE IF page.nav = "error"
        THEN [Result(fallback, "fallback", "failed", driver) EXCEPT !.calls = <<"get", "quit">>]
        ELSE IF page.nav = "blocked"
        THEN [Result(<<>>, "none", "blocked", driver)
                 EXCEPT !.calls = <<"get", "find_element", "page_source", "quit">>]
        ELSE [Result(IF found # <<>> THEN found ELSE fallback,
                     IF found # <<>> THEN "structural" ELSE "fallback", "ok", driver)
                 EXCEPT !.calls = <<"get", "find_element", "page_source",
                                    "execute_script", "page_source", "quit">>]

\* config.getboolean('PLATFORMS', key): [val, raised]
getboolean(v) ==
    IF v \in {"1", "yes", "true", "on"} THEN [val |-> TRUE, raised |-> FALSE]
    ELSE IF v \in {"0", "no", "false", "off"} THEN [val |-> FALSE, raised |-> FALSE]
    ELSE [val |-> FALSE, raised |-> TRUE]

\* existing_names = {h.get('name', '') for h in existing_hackathons}
existing_names(existing) == {existing[i].name : i \in DOMAIN existing}

\* the records of all that are not in names, last first
RECURSIVE FilterNewReversed(_, _)
FilterNewReversed(all, names) ==
    IF all = <<>> THEN <<>>
    ELSE IF Head(all).name \notin names
         THEN FilterNewReversed(Tail(all), names) \o <<Head(all)>>
         ELSE FilterNewReversed(Tail(all), names)

\* the filter loop of scrape_all_platforms
RECURSIVE FilterNew(_, _)
FilterNew(all, names) ==
    IF all = <<>> THEN <<>>
    ELSE IF Head(all).name \notin names
         THEN <<Head(all)>> \o FilterNew(Tail(all), names)
         ELSE FilterNew(Tail(all), names)

-----------------------------------------------------------------------------
(* hackathon_monitor_crossplatform.py: run_scraping_cycle *)

\* the except clause of run_scraping_cycle logs the exception; the method
\* returns None either way
cycle_exit(exc) == IF exc THEN "returned" ELSE "returned"

\* the store as it is
Store == [file |-> file, rows |-> rows, headers |-> headers]

NoPrev == [all |-> <<>>, delta |-> <<>>, saved |-> "none", n |-> 0]

NoCall == [op |-> "none", arg |-> <<>>, out |-> <<>>, raised |-> FALSE,
           before |-> [file |-> "ok", rows |-> <<>>, headers |-> Headers], n |-> 0,
           res |-> NoRes]

Configs == [{"devpost", "mlh", "unstop"} -> {"true", "false"}]

\* what config.ini can hold for a key of [PLATFORMS] after an edit: a boolean
\* word, another word, or no line at all (getboolean raises on both)
Missing == "<missing>"

ConfigValues == {"true", "false", "maybe", Missing}

ConfigsAny == [{"devpost", "mlh", "unstop"} -> ConfigValues]

\* Stores earlier cycles can have left behind: nothing; the DevPost sample
\* records; one scraped DevPost record; a JSON record of MLH without a name
\* followed by a record Unstop's text gave
InitStores ==
    {<<>>,
     WrittenRows(create_sample_hackathons("DevPost", now(0))),
     WrittenRows(<<DevCardRecord(Card(A1, "/h", FALSE), now(0))>>),
     WrittenRows(<<MlhEventRecord(Event(TRUE, E1), now(0))>>
                 \o extract_hackathons_from_text(<<A2>>, "Unstop", now(0)))}

InitOn(stores, configs) ==
    /\ file = "ok"
    /\ rows \in stores
    /\ config \in configs
    /\ pc = "idle"
    /\ existing_hackathons = <<>>
    /\ all_hackathons = <<>>
    /\ new_hackathons = <<>>
    /\ res = [p \in Platforms |-> NoRes]
    /\ saved = "none"
    /\ exit = "none"
    /\ start = [file |-> "ok", rows |-> rows]
    /\ prev = NoPrev
    /\ ncycles = 0
    /\ call = NoCall
    /\ is_monitoring = FALSE
    /\ threads = <<>>
    /\ browsers = 0
    /\ headers = Headers
    /\ sent = <<>>

InitWith(stores) == InitOn(stores, Configs)

\* the program starts on a store earlier runs have filled
Init == InitWith(InitStores)

\* ExcelManager was constructed on a path without a file: header row only
InitEmpty == InitWith({<<>>})

\* an exception reached the except clause of run_scraping_cycle
Abort ==
    /\ pc' = "done"
    /\ exit' = cycle_exit(TRUE)

\* run_scraping_cycle up to the call of scrape_all_platforms
CycleStart(from) ==
    /\ pc \in from
    /\ LET r == get_existing_hackathons(file, rows)
       IN  /\ existing_hackathons' = r.recs
           /\ IF r.raised THEN Abort ELSE pc' = "devpost" /\ exit' = "none"
    /\ ncycles' = ncycles + 1
    /\ prev' = IF ncycles = 0 THEN NoPrev
               ELSE [all |-> all_hackathons, delta |-> new_hackathons,
                     saved |-> saved, n |-> ncycles]
    /\ start' = [file |-> file, rows |-> rows]
    /\ all_hackathons' = <<>>
    /\ new_hackathons' = <<>>
    /\ res' = [p \in Platforms |-> NoRes]
    /\ saved' = "none"
    /\ sent' = <<>>
    /\ UNCHANGED <<file, rows, config, call>>
    /\ UNCHANGED web
    /\ UNCHANGED <<browsers, headers>>

\* run_once: one cycle
RunOnce == CycleStart({"idle"})

\* start_monitoring: the first cycle, then one cycle per scheduled job
RunScheduled == ncycles < MaxCycles /\ CycleStart({"idle", "done"})

\* one "if config.getboolean(...)" block of scrape_all_platforms
Scrape(platform, r, nextpc) ==
    /\ IF r.raised
       THEN Abort /\ UNCHANGED <<all_hackathons, res>>
       ELSE /\ all_hackathons' = all_hackathons \o r.recs
            /\ res' = [res EXCEPT ![platform] = r]
            /\ pc' = nextpc
            /\ exit' = exit

Skip(key, nextpc) ==
    /\ IF getboolean(config[key]).raised THEN Abort ELSE pc' = nextpc /\ exit' = exit
    /\ UNCHANGED <<all_hackathons, res>>

Enabled(key) == LET g == getboolean(config[key]) IN ~g.raised /\ g.val

ScrapeDevpost(pages) ==
    /\ pc = "devpost"
    /\ IF Enabled("devpost")
       THEN \E page \in pages : Scrape("DevPost", scrape_devpost(page, now(ncycles)), "mlh")
       ELSE Skip("devpost", "mlh")
    /\ browsers' = browsers + Open(res'["DevPost"].driver, res'["DevPost"].calls)
    /\ UNCHANGED <<file, rows, config, existing_hackathons, new_hackathons, saved,
                   start, prev, ncycles, call>>
    /\ UNCHANGED web
    /\ UNCHANGED sent
    /\ UNCHANGED headers

ScrapeMLH(pages) ==
    /\ pc = "mlh"
    /\ IF Enabled("mlh")
       THEN \E page \in pages : Scrape("MLH", scrape_mlh(page, now(ncycles)), "unstop")
       ELSE Skip("mlh", "unstop")
    /\ UNCHANGED <<file, rows, config, existing_hackathons, new_hackathons, saved,
                   start, prev, ncycles, call>>
    /\ UNCHANGED web
    /\ UNCHANGED sent
    /\ UNCHANGED <<browsers, headers>>

ScrapeUnstop(pages) ==
    /\ pc = "unstop"
    /\ IF Enabled("unstop")
       THEN \E page \in pages : Scrape("Unstop", scrape_unstop(page, now(ncycles)), "filter")
       ELSE Skip("unstop", "filter")
    /\ UNCHANGED <<file, rows, config, existing_hackathons, new_hackathons, saved,
                   start, prev, ncycles, call>>
    /\ UNCHANGED web
    /\ UNCHANGED sent
    /\ UNCHANGED <<browsers, headers>>

\* getboolean('SETTINGS', 'notifications_enabled'): a configuration that
\* lists the platforms alone has the SETTINGS of create_default_config
notifications_enabled ==
    getboolean(IF "notifications_enabled" \in DOMAIN config
               THEN config["notifications_enabled"] ELSE "true")

\* send_summary_notification(new_hackathons), called for a non-empty list:
\* the title and the counts of the message; total is what
\* get_existing_hackathons returns at that moment
send_summary_notification(delta, f, rs) ==
    [title |-> "New Hackathons Found!", new |-> Len(delta),
     total |-> Len(get_existing_hackathons(f, rs).recs)]

\* the notification of a cycle without new records
ActiveNotification == [title |-> "Hackathon Monitor", new |-> 0, total |-> 0]

\* "if new_hackathons:" of run_scraping_cycle
ShouldSaveAlways(delta) == TRUE

ShouldSave(delta) == delta # <<>>

\* a cycle that told the user of the new records before it saved them
cycle_notifications_first(delta, w, g) ==
    IF g.raised \/ ~g.val THEN <<>>
    ELSE IF delta # <<>> THEN <<send_summary_notification(delta, w.file, w.rows)>>
    ELSE <<ActiveNotification>>

\* what run_scraping_cycle sends after scrape_all_platforms returned delta:
\* w is the result of save_hackathons (for an empty delta: the store as it
\* is), g that of getboolean; an exception of either ends the try block
cycle_notifications(delta, w, g) ==
    IF w.raised \/ g.raised \/ ~g.val THEN <<>>
    ELSE IF delta # <<>> THEN <<send_summary_notification(delta, w.file, w.rows)>>
    ELSE <<ActiveNotification>>

\* the filter of scrape_all_platforms, then "if new_hackathons:" of
\* run_scraping_cycle with save_hackathons and the notification
FilterAndSave ==
    /\ pc = "filter"
    /\ LET delta == FilterNew(all_hackathons, existing_names(existing_hackathons))
           g     == notifications_enabled
       IN  /\ new_hackathons' = delta
           /\ IF ShouldSave(delta)
              THEN \E io \in IoOutcomes :
                      LET w == save_hackathons(file, rows, delta, io)
                      IN  /\ file' = w.file
                          /\ rows' = w.rows
                          /\ saved' = IF w.raised THEN "failed" ELSE "ok"
                          /\ sent' = cycle_notifications(delta, w, g)
                          /\ exit' = cycle_exit(w.raised \/ g.raised)
              ELSE /\ UNCHANGED <<file, rows, saved>>
                   /\ sent' = cycle_notifications(delta,
                                  [file |-> file, rows |-> rows, raised |-> FALSE], g)
                   /\ exit' = cycle_exit(g.raised)
    /\ pc' = "done"
    /\ UNCHANGED <<config, existing_hackathons, all_hackathons, res, start, prev,
                   ncycles, call>>
    /\ UNCHANGED web
    /\ UNCHANGED <<browsers, headers>>

\* before the cycle something outside the program deletes the store file or
\* damages it
\* the record of the last call, once the store has changed behind it: what
\* the call left is no longer what the store holds
Stale(c) == IF c.op = "none" THEN c ELSE [c EXCEPT !.op = "stale"]

DeleteFile ==
    /\ pc = "idle"
    /\ file # "missing"
    /\ file' = "missing"
    /\ rows' = <<>>
    /\ call' = Stale(call)
    /\ UNCHANGED <<config, pc, existing_hackathons, all_hackathons, new_hackathons,
                   res, saved, exit, start, prev, ncycles>>
    /\ UNCHANGED web
    /\ UNCHANGED sent
    /\ UNCHANGED <<browsers, headers>>

CorruptFile ==
    /\ pc = "idle"
    /\ file = "ok"
    /\ file' = "corrupt"
    /\ rows' = <<>>
    /\ call' = Stale(call)
    /\ UNCHANGED <<config, pc, existing_hackathons, all_hackathons, new_hackathons,
                   res, saved, exit, start, prev, ncycles>>
    /\ UNCHANGED web
    /\ UNCHANGED sent
    /\ UNCHANGED <<browsers, headers>>

DevPagesSmall == DevPages(MaxItems)
MlhPagesSmall == UrlPages("MLH", MaxItems)
UnstopPagesSmall == UrlPages("Unstop", MaxItems)
DevPagesBig == DevPages(MaxCards)

\* run_once on a store earlier runs have filled, which may have been deleted
\* or damaged since the ExcelManager was constructed
Next ==
    \/ RunOnce
    \/ ScrapeDevpost(DevPagesSmall)
    \/ ScrapeMLH(MlhPagesSmall)
    \/ ScrapeUnstop(UnstopPagesSmall)
    \/ FilterAndSave
    \/ DeleteFile
    \/ CorruptFile

Spec == Init /\ [][Next]_vars

\* start_monitoring on a new store: cycle after cycle, and only the cycle
\* writes the store
NextCycles ==
    \/ RunScheduled
    \/ ScrapeDevpost(DevPagesSmall)
    \/ ScrapeMLH(MlhPagesSmall)
    \/ ScrapeUnstop(UnstopPagesSmall)
    \/ FilterAndSave

SpecCycles == InitEmpty /\ [][NextCycles]_vars

\* run_once on a new store, with larger DevPost pages
NextBig ==
    \/ RunOnce
    \/ ScrapeDevpost(DevPagesBig)
    \/ ScrapeMLH(MlhPagesSmall)
    \/ ScrapeUnstop(UnstopPagesSmall)
    \/ FilterAndSave

SpecBig == InitEmpty /\ [][NextBig]_vars

\* run_once on a new store when the platforms' pages hold entries that look
\* like the sample records
NextLike ==
    \/ RunOnce
    \/ ScrapeDevpost(DevPagesOf(LikeCards, MaxItems))
    \/ ScrapeMLH(UrlPagesOf("MLH", MaxItems, LikeEvents, LikeMatches))
    \/ ScrapeUnstop(UrlPagesOf("Unstop", MaxItems, LikeItems, LikeMatches))
    \/ FilterAndSave

SpecLike == InitEmpty /\ [][NextLike]_vars

\* run_once with notifications switched on, switched off, or with a word
\* getboolean does not know
ConfigsNotify ==
    [{"devpost", "mlh", "unstop", "notifications_enabled"} -> {"true", "false"}]
    \cup {[k \in {"devpost", "mlh", "unstop", "notifications_enabled"} |->
             IF k = "notifications_enabled" THEN "maybe" ELSE "true"]}

InitNotify == InitOn({<<>>}, ConfigsNotify)

SpecNotify == InitNotify /\ [][Next]_vars

\* run_once with a config.ini that was edited by hand
InitConfig == InitOn(InitStores, ConfigsAny)

SpecConfig == InitConfig /\ [][Next]_vars

-----------------------------------------------------------------------------
(* Direct use of the store: ExcelManager's methods called one after another *)

\* records a caller can hand to save_hackathons: names are non-empty, link
\* and start_date may be ''
BatchRecords ==
    {DevCardRecord(Card(A1, "/h", FALSE), now(1)),
     DevCardRecord(Card(A2, "", FALSE), now(1)),
     create_sample_hackathons("MLH", now(1))[1]}

Batches == SeqsUpTo(BatchRecords, MaxBatch)

SaveCall ==
    /\ pc = "idle"
    /\ call.n < MaxCalls
    /\ \E batch \in Batches, io \in IoOutcomes :
          LET w == save_hackathons(file, rows, batch, io)
          IN  /\ file' = w.file
              /\ rows' = w.rows
              /\ call' = [op |-> "save", arg |-> batch, out |-> <<>>,
                          raised |-> w.raised,
                          before |-> Store, n |-> call.n + 1,
                          res |-> NoRes]
    /\ UNCHANGED <<config, pc, existing_hackathons, all_hackathons, new_hackathons,
                   res, saved, exit, start, prev, ncycles>>
    /\ UNCHANGED web
    /\ UNCHANGED sent
    /\ UNCHANGED <<browsers, headers>>

\* get_existing_hackathons; arg remembers the batch when the call before
\* was a save_hackathons that returned
ReadCall ==
    /\ pc = "idle"
    /\ call.n < MaxCalls
    /\ LET r == get_existing_hackathons(file, rows)
       IN  call' = [op |-> "read",
                    arg |-> IF call.op = "save" /\ ~call.raised THEN call.arg ELSE <<>>,
                    out |-> r.recs, raised |-> r.raised,
                    before |-> Store, n |-> call.n + 1,
                    res |-> NoRes]
    /\ UNCHANGED <<file, rows, config, pc, existing_hackathons, all_hackathons,
                   new_hackathons, res, saved, exit, start, prev, ncycles>>
    /\ UNCHANGED web
    /\ UNCHANGED sent
    /\ UNCHANGED <<browsers, headers>>

\* the names and statuses a caller hands to update_hackathon_status
UpdateNames == {A1, A2, N1, None}

UpdateStatuses == {"Applied"}

UpdateCall ==
    /\ pc = "idle"
    /\ call.n < MaxCalls
    /\ \E name \in UpdateNames, status \in UpdateStatuses, io \in IoOutcomes :
          LET w == update_hackathon_status(file, rows, name, status, io)
          IN  /\ file' = w.file
              /\ rows' = w.rows
              /\ call' = [op |-> "update", arg |-> <<[name |-> name, status |-> status]>>,
                          out |-> <<>>, raised |-> w.raised, before |-> Store,
                          n |-> call.n + 1, res |-> NoRes]
    /\ UNCHANGED <<config, pc, existing_hackathons, all_hackathons, new_hackathons,
                   res, saved, exit, start, prev, ncycles, browsers, headers>>
    /\ UNCHANGED web
    /\ UNCHANGED sent

\* ExcelManager(path): the program starts again on the same path
Construct ==
    /\ pc = "idle"
    /\ call.n < MaxCalls
    /\ \E io \in IoOutcomes :
          LET w == ensure_excel_file(file, rows, headers, io)
          IN  /\ file' = w.file
              /\ rows' = w.rows
              /\ headers' = w.headers
              /\ call' = [op |-> "construct", arg |-> <<>>, out |-> <<>>,
                          raised |-> w.raised, before |-> Store,
                          n |-> call.n + 1, res |-> NoRes]
    /\ UNCHANGED <<config, pc, existing_hackathons, all_hackathons, new_hackathons,
                   res, saved, exit, start, prev, ncycles, browsers>>
    /\ UNCHANGED web
    /\ UNCHANGED sent

\* a header row that is not self.headers
Drifted == <<"Title", "Platform", "Link", "Start Date", "Tags", "Scraped At", "Status">>

\* someone renames a column of the sheet in a spreadsheet program
EditHeader ==
    /\ pc = "idle"
    /\ file = "ok"
    /\ headers = Headers
    /\ headers' = Drifted
    /\ call' = Stale(call)
    /\ UNCHANGED <<file, rows, config, pc, existing_hackathons, all_hackathons,
                   new_hackathons, res, saved, exit, start, prev, ncycles, browsers>>
    /\ UNCHANGED web
    /\ UNCHANGED sent

\* the store file gets into a state in which load_workbook raises on it
\* while its rows are still in it
BlockFile ==
    /\ pc = "idle"
    /\ file = "ok"
    /\ file' = "unreadable"
    /\ call' = Stale(call)
    /\ UNCHANGED <<rows, config, pc, existing_hackathons, all_hackathons,
                   new_hackathons, res, saved, exit, start, prev, ncycles, browsers,
                   headers>>
    /\ UNCHANGED web
    /\ UNCHANGED sent

\* the program is started again and again on stores earlier runs have
\* filled, which may have been edited, damaged or deleted in between
NextInit ==
    \/ Construct
    \/ ReadCall
    \/ EditHeader
    \/ BlockFile
    \/ CorruptFile
    \/ DeleteFile

SpecInit == Init /\ [][NextInit]_vars

NextStore ==
    \/ SaveCall
    \/ ReadCall
    \/ UpdateCall
    \/ Construct
    \/ EditHeader
    \/ DeleteFile
    \/ CorruptFile

SpecStore == InitEmpty /\ [][NextStore]_vars

-----------------------------------------------------------------------------
(* Direct use of the scraper: HackathonScraper's methods called one after   *)
(* another                                                                  *)

\* a scrape operation was called on a page with the given containers and
\* returned r
ScraperCall(op, arg, r) ==
    /\ call' = [op |-> op, arg |-> arg, out |-> r.recs, raised |-> r.raised,
                before |-> Store, n |-> call.n + 1, res |-> r]
    /\ browsers' = browsers + Open(r.driver, r.calls)

CallScrapeDevpost ==
    /\ pc = "idle"
    /\ call.n < MaxCalls
    /\ \E page \in DevPagesSmall :
          ScraperCall("scrape_devpost", page.cards, scrape_devpost(page, now(1)))
    /\ UNCHANGED <<file, rows, config, pc, existing_hackathons, all_hackathons,
                   new_hackathons, res, saved, exit, start, prev, ncycles>>
    /\ UNCHANGED web
    /\ UNCHANGED sent
    /\ UNCHANGED headers

CallInspectMLH ==
    /\ pc = "idle"
    /\ call.n < MaxCalls
    /\ \E page \in MlhInspectPages(MaxTitles) :
          ScraperCall("inspect_and_scrape_mlh", page.titles,
                      inspect_and_scrape_mlh(page, now(1)))
    /\ UNCHANGED <<file, rows, config, pc, existing_hackathons, all_hackathons,
                   new_hackathons, res, saved, exit, start, prev, ncycles>>
    /\ UNCHANGED web
    /\ UNCHANGED sent
    /\ UNCHANGED headers

CallInspectUnstop ==
    /\ pc = "idle"
    /\ call.n < MaxCalls
    /\ \E page \in UnstopInspectPages(MaxItems) :
          ScraperCall("inspect_and_scrape_unstop", page.comps,
                      inspect_and_scrape_unstop(page, now(1)))
    /\ UNCHANGED <<file, rows, config, pc, existing_hackathons, all_hackathons,
                   new_hackathons, res, saved, exit, start, prev, ncycles>>
    /\ UNCHANGED web
    /\ UNCHANGED sent
    /\ UNCHANGED headers

NextScraper ==
    \/ CallScrapeDevpost
    \/ CallInspectMLH
    \/ CallInspectUnstop

\* the scraper's methods read no configuration: the default config.ini
InitScraper == InitOn({<<>>}, {[k \in {"devpost", "mlh", "unstop"} |-> "true"]})

SpecScraper == InitScraper /\ [][NextScraper]_vars

-----------------------------------------------------------------------------
(* scrape_devpost on pages with more cards than it reads *)

\* the h3 text of the i-th card of a long page
Title(i) == "devpost event " \o ToString(i)

\* a page of n cards: looking into card j raises, card k is called
\* 'Hackathon', card m has a title of 4 characters (0: no such card)
LongCards(n, j, k, m) ==
    [i \in 1..n |->
        IF i = j THEN Card(Title(i), "/h", TRUE)
        ELSE IF i = k THEN Card(G1, "/g", FALSE)
        ELSE IF i = m THEN Card("Hack", "/s", FALSE)
        ELSE Card(Title(i), "/h", FALSE)]

LongPages ==
    {[resp |-> "200", chrome |-> c, edge |-> FALSE, render |-> "ok",
      cards |-> LongCards(n, jkm[1], jkm[2], jkm[3])] :
        c \in BOOLEAN, n \in 0..MaxLong, jkm \in (0..MaxLong) \X (0..MaxLong) \X {0, 1, MaxLong}}

CallScrapeLong ==
    /\ pc = "idle"
    /\ call.n = 0
    /\ \E page \in LongPages :
          ScraperCall("scrape_devpost", page.cards, scrape_devpost(page, now(1)))
    /\ UNCHANGED <<file, rows, config, pc, existing_hackathons, all_hackathons,
                   new_hackathons, res, saved, exit, start, prev, ncycles>>
    /\ UNCHANGED web
    /\ UNCHANGED sent
    /\ UNCHANGED headers

SpecCards == InitScraper /\ [][CallScrapeLong]_vars

-----------------------------------------------------------------------------
(* extract_hackathons_from_text on its own *)

Ten == "Hackathon "

Ninety == Ten \o Ten \o Ten \o Ten \o Ten \o Ten \o Ten \o Ten \o Ten

\* what the patterns can match in a text: names of 11, 12, 14 and 16
\* characters; a name with blanks around it; a match of 10 characters; a
\* match of 100 characters that is 99 long once stripped; and one of 100
RawMatches ==
    {"Hack Nights", A1, A2, P1, D1, " " \o A1 \o "  ", "Hackathons",
     Ninety \o Ten, Ninety \o "Hackathons"}

\* the result of re.findall over the patterns: the matches of a text, some of
\* them found a second time by a later pattern
MatchLists ==
    {SetToSeq(S) \o d : S \in {T \in SUBSET RawMatches : Cardinality(T) <= MaxMatches},
                         d \in {<<>>, <<A1>>}}

\* extract_hackathons_from_text(text, platform), once.  text is None or a
\* string with the given matches; re.findall raises on None and the except
\* clause returns the empty list
CallExtract ==
    /\ pc = "idle"
    /\ call.n = 0
    /\ \E matches \in MatchLists, isnone \in BOOLEAN, platform \in {"MLH", "Unstop"} :
          \E listing \in Listings(found_names(matches)) :
              call' = [op |-> "extract_hackathons_from_text",
                       arg |-> IF isnone THEN <<>> ELSE matches,
                       out |-> IF isnone THEN <<>>
                               ELSE extract_hackathons_from_text(listing, platform, now(1)),
                       raised |-> FALSE,
                       before |-> Store, n |-> 1, res |-> NoRes]
    /\ UNCHANGED <<file, rows, config, pc, existing_hackathons, all_hackathons,
                   new_hackathons, res, saved, exit, start, prev, ncycles, browsers>>
    /\ UNCHANGED web
    /\ UNCHANGED sent
    /\ UNCHANGED headers

SpecText == InitScraper /\ [][CallExtract]_vars

-----------------------------------------------------------------------------
(* hackathon_monitor_web.py: WebHackathonMonitor *)

\* threads the dashboard starts in one behaviour
MaxThreads == 3

\* every variable of the cycle and the store: a thread's run_scraping_cycle is
\* followed here from its call to its return, not through its steps
core == <<file, rows, config, pc, existing_hackathons, all_hackathons,
          new_hackathons, res, saved, exit, start, prev, ncycles, call, browsers,
          headers, sent>>

\* a thread: what it runs and where it is.  "top" is the while test of
\* _monitoring_loop or the first line of run_scrape, "cycle" is inside
\* monitor.run_scraping_cycle(), "wait" is the sleep loop, "errwait" the
\* sleep of the except clause, "exit" is the end
Thread(kind, at) == [kind |-> kind, at |-> at]

\* start_monitoring: returns False when is_monitoring, else sets the flag and
\* starts a thread on _monitoring_loop
WebStartMonitoring ==
    /\ ~is_monitoring
    /\ Len(threads) < MaxThreads
    /\ is_monitoring' = TRUE
    /\ threads' = Append(threads, Thread("loop", "top"))
    /\ UNCHANGED core

\* stop_monitoring: clears the flag
WebStopMonitoring ==
    /\ is_monitoring
    /\ is_monitoring' = FALSE
    /\ UNCHANGED <<threads, core>>

\* scrape_once: starts a thread on run_scrape
WebScrapeOnce ==
    /\ Len(threads) < MaxThreads
    /\ threads' = Append(threads, Thread("once", "top"))
    /\ UNCHANGED <<is_monitoring, core>>

\* a loop whose while test does not look at the flag
LoopTestAlways(i) ==
    /\ threads[i] = Thread("loop", "top")
    /\ threads' = [threads EXCEPT ![i].at = "cycle"]
    /\ UNCHANGED <<is_monitoring, core>>

\* "while self.is_monitoring:" of _monitoring_loop, up to the call of
\* run_scraping_cycle
LoopTest(i) ==
    /\ threads[i] = Thread("loop", "top")
    /\ threads' = [threads EXCEPT ![i].at = IF is_monitoring THEN "cycle" ELSE "exit"]
    /\ UNCHANGED <<is_monitoring, core>>

\* run_scrape up to the call of run_scraping_cycle
OnceBegin(i) ==
    /\ threads[i] = Thread("once", "top")
    /\ threads' = [threads EXCEPT ![i].at = "cycle"]
    /\ UNCHANGED <<is_monitoring, core>>

\* run_scraping_cycle returns (it raises nothing); the loop goes on to its
\* sleep loop, run_scrape ends
CycleReturn(i) ==
    /\ threads[i].at = "cycle"
    /\ threads' = [threads EXCEPT ![i].at = IF threads[i].kind = "loop" THEN "wait" ELSE "exit"]
    /\ UNCHANGED <<is_monitoring, core>>

\* after the cycle something in the try block of the loop raises
\* (_update_stats, or float() of the configured interval): the except clause
\* logs and sleeps 5 minutes
LoopError(i) ==
    /\ threads[i] = Thread("loop", "cycle")
    /\ threads' = [threads EXCEPT ![i].at = "errwait"]
    /\ UNCHANGED <<is_monitoring, core>>

\* the sleep loop ends, by its break or after the interval, or the sleep of
\* the except clause ends, and the thread is back at the while test
LoopWake(i) ==
    /\ threads[i].kind = "loop"
    /\ threads[i].at \in {"wait", "errwait"}
    /\ threads' = [threads EXCEPT ![i].at = "top"]
    /\ UNCHANGED <<is_monitoring, core>>

NextWeb ==
    \/ WebStartMonitoring
    \/ WebStopMonitoring
    \/ WebScrapeOnce
    \/ \E i \in DOMAIN threads : LoopTest(i)
    \/ \E i \in DOMAIN threads : OnceBegin(i)
    \/ \E i \in DOMAIN threads : CycleReturn(i)
    \/ \E i \in DOMAIN threads : LoopError(i)
    \/ \E i \in DOMAIN threads : LoopWake(i)

SpecWeb == InitEmpty /\ [][NextWeb]_vars

\* every thread that can take a step takes one in the end: the cycle
\* returns or raises, the sleeps end, the while test is made
ThreadSteps(i) ==
    /\ i \in DOMAIN threads
    /\ LoopTest(i) \/ OnceBegin(i) \/ CycleReturn(i) \/ LoopError(i) \/ LoopWake(i)

SpecWebLive == SpecWeb /\ \A i \in 1..MaxThreads : WF_vars(ThreadSteps(i))

-----------------------------------------------------------------------------
(* The claims *)

Key(p) == Lower(p)

Scraped(p) == res[p].tier # "none"

\* the cycle ran to its end: no exception reached the except clause before
\* the filter
Completed == pc = "done" /\ \A p \in Platforms : Enabled(Key(p)) => Scraped(p)

NamedRows == {i \in DOMAIN rows : Truthy(rows[i].name)}

\* C1: after any sequence of cycles on a store that started empty, no two
\* rows of the store have names that are equal ignoring letter case.
C1_DedupInvariant ==
    file = "ok" =>
        \A i, j \in NamedRows : i # j => Lower(rows[i].name) # Lower(rows[j].name)

\* C2: on an empty store, when platform a's fetch fails and platform b alone
\* succeeds, with 3 records, the delta is exactly b's 3 records, holds no
\* record of platform a, and a's failure is not raised.
C2_PartialFailure ==
    \A a, b \in Platforms :
        ( /\ pc = "done"
          /\ start = [file |-> "ok", rows |-> <<>>]
          /\ a # b
          /\ \A p \in Platforms : Enabled(Key(p)) <=> p \in {a, b}
          /\ res[a].fetch = "failed"
          /\ res[b].tier \in {"structural", "text", "json"}
          /\ Len(res[b].recs) = 3 )
        => /\ new_hackathons = res[b].recs
           /\ \A i \in DOMAIN new_hackathons : new_hackathons[i].platform # a
           /\ ~res[a].raised

\* the records of two cycles are the same but for the time they were scraped
Untimed(recs) == [i \in DOMAIN recs |-> [recs[i] EXCEPT !.scraped_at = ""]]

\* C3: when two cycles follow one another, some platform is enabled, the
\* platforms return the same records in both and the first cycle's write
\* succeeds, the first delta is non-empty and the second is empty.
C3_Idempotence ==
    ( /\ Completed
      /\ prev.n = 1
      /\ ncycles = 2
      /\ \E p \in Platforms : Enabled(Key(p))
      /\ Untimed(all_hackathons) = Untimed(prev.all)
      /\ prev.saved = "ok" )
    => prev.delta # <<>> /\ new_hackathons = <<>>

\* C4: when save_hackathons fails in a cycle, run_scraping_cycle passes the
\* failure on to its caller.
C4_WriteFailureVisible ==
    (pc = "done" /\ saved = "failed") => exit = "raised"

C6_PlatformIsolation ==
    /\ pc \in {"mlh", "unstop", "filter", "done"} =>
          (Enabled("devpost") => Scraped("DevPost"))
    /\ pc \in {"unstop", "filter", "done"} => (Enabled("mlh") => Scraped("MLH"))
    /\ pc \in {"filter", "done"} => (Enabled("unstop") => Scraped("Unstop"))

C6_Witness ==
    /\ pc = "done"
    /\ res["DevPost"].tier = "sample" /\ res["DevPost"].fetch = "failed"
    /\ res["MLH"].tier = "sample" /\ res["MLH"].fetch = "failed"
    /\ res["Unstop"].tier = "text"

\* C7: the delta holds no record whose name equals an existing record's name
\* ignoring letter case, and holds every scraped record whose name matches no
\* existing name ignoring case.
C7_CaseInsensitiveFilter ==
    Completed =>
        /\ \A i \in DOMAIN new_hackathons : \A j \in DOMAIN existing_hackathons :
              Lower(new_hackathons[i].name) # Lower(existing_hackathons[j].name)
        /\ \A k \in DOMAIN all_hackathons :
              (\A j \in DOMAIN existing_hackathons :
                  Lower(all_hackathons[k].name) # Lower(existing_hackathons[j].name))
              => all_hackathons[k] \in Range(new_hackathons)

\* C8: after save_hackathons of records with non-empty names on a valid
\* store, get_existing_hackathons returns for each of them a record with the
\* same name, platform, link, start_date and tags, and status 'New'.
C8_RoundTrip ==
    (call.op = "read") =>
        \A i \in DOMAIN call.arg : \E j \in DOMAIN call.out :
            /\ call.out[j].name = call.arg[i].name
            /\ call.out[j].platform = call.arg[i].platform
            /\ call.out[j].link = call.arg[i].link
            /\ call.out[j].start_date = call.arg[i].start_date
            /\ call.out[j].tags = call.arg[i].tags
            /\ call.out[j].status = "New"

\* C9: when save_hackathons fails it raises, and the store content is what
\* it was before the call.
C9_AppendAtomic ==
    (call.op = "save" /\ (call.raised \/ call.before.file # "ok"))
    => /\ call.raised
       /\ file = call.before.file
       /\ rows = call.before.rows

\* C10: when get_webdriver returns None, the platform scrape that uses the
\* rendered fetch contributes no record, and the cycle goes on.
C10_NoRenderer ==
    (pc = "done" /\ Scraped("DevPost") /\ res["DevPost"].driver = None)
    => res["DevPost"].recs = <<>> /\ Completed

\* a key of [PLATFORMS] is missing or holds no boolean word
Malformed == \E k \in DOMAIN config : getboolean(config[k]).raised

\* C11: when the platform configuration is malformed, no platform is fetched
\* in the cycle, nothing is appended to the store, and run_scraping_cycle
\* passes the failure on to its caller.
C11_ConfigErrorFatal ==
    (pc = "done" /\ Malformed)
    => /\ \A p \in Platforms : res[p].fetch = "none"
       /\ file = start.file /\ rows = start.rows
       /\ exit = "raised"

\* the threads that are inside run_scraping_cycle
Running == {i \in DOMAIN threads : threads[i].at = "cycle"}

\* C12: at no time are two cycles on the same store in progress at once,
\* for every interleaving of start_monitoring, stop_monitoring and
\* scrape_once requests on the web dashboard.
C12_NoOverlap == Cardinality(Running) <= 1

\* C13: every browser instance got from get_webdriver during scrape_devpost,
\* inspect_and_scrape_mlh or inspect_and_scrape_unstop has been quit when the
\* operation returns, on the success path and on every failure path.
C13_BrowserReleased == browsers = 0

\* scrape_devpost's driver.get raised, the static HTML gave the records, and
\* the driver was quit
C13_Witness ==
    /\ call.op = "scrape_devpost"
    /\ call.res.driver = "edge"
    /\ call.res.calls = <<"get", "quit">>
    /\ call.res.tier = "structural"
    /\ browsers = 0

RecordKeys == {"name", "platform", "link", "start_date", "tags", "scraped_at"}

\* C14: scrape_devpost, scrape_mlh and scrape_unstop return a non-empty
\* sequence for every outcome of fetching and parsing; when the earlier tiers
\* yield nothing the result is the 3-record sample set of the platform; and
\* every returned record has the six keys.
C14_NonEmptyResponse ==
    \A p \in Platforms :
        Scraped(p) =>
            /\ res[p].recs # <<>>
            /\ res[p].tier = "sample" =>
                  /\ Len(res[p].recs) = 3
                  /\ res[p].recs = create_sample_hackathons(p, now(ncycles))
            /\ res[p].tier \in {"structural", "json", "text", "mixed", "sample"}
            /\ \A i \in DOMAIN res[p].recs : DOMAIN res[p].recs[i] = RecordKeys

\* DevPost's page had cards and all were skipped, every URL of MLH failed,
\* and Unstop's pages were fetched and gave nothing
C14_Witness ==
    /\ pc = "done"
    /\ res["DevPost"].tier = "sample" /\ res["DevPost"].fetch = "ok"
    /\ res["DevPost"].driver = "chrome"
    /\ res["MLH"].tier = "sample" /\ res["MLH"].fetch = "failed"
    /\ res["Unstop"].tier = "sample" /\ res["Unstop"].fetch = "ok"
    /\ Len(all_hackathons) = 9

\* the fields of a record or of a row, but for the scrape time and the status
Fields(r) == <<r.name, r.platform, r.link, r.start_date, r.tags>>

SampleFields ==
    UNION {{Fields(RowOf(x)) : x \in Range(create_sample_hackathons(p, ""))} : p \in Platforms}

\* what a consumer can test on a record: its fields are those of a sample
IsSample(r) == Fields(r) \in SampleFields

C16_TextCapped ==
    call.op = "extract_hackathons_from_text" =>
        /\ Len(call.out) <= 5
        /\ \A i, j \in DOMAIN call.out : i # j => call.out[i].name # call.out[j].name
        /\ \A i \in DOMAIN call.out :
              /\ call.out[i].name \in {Strip(m) : m \in Range(call.arg)}
              /\ Len(call.out[i].name) > 10
              /\ Len(call.out[i].name) < 100
        /\ ~call.raised

\* six names qualify, one of them matched three times and one 99 long after
\* strip, a match of 100 characters is left out, and five are returned
C16_Witness ==
    /\ call.op = "extract_hackathons_from_text"
    /\ Cardinality(found_names(call.arg)) = 6
    /\ Len(call.arg) = 8
    /\ Ninety \o "Hackathons" \in Range(call.arg)
    /\ Len(call.out) = 5
    /\ \E i \in DOMAIN call.out : Len(call.out[i].name) = 99

\* C17: given a rendered page with two event containers, one marked
\* 'Digital Only' and one 'In-Person', the MLH extractor returns exactly the
\* digital one; a container that is not 'Digital Only' is never in its result.
C17_DigitalOnly ==
    (call.op = "inspect_and_scrape_mlh" /\ call.res.fetch = "ok") =>
        /\ \A i \in DOMAIN call.out : \E k \in DOMAIN call.arg :
              call.arg[k].text = call.out[i].name /\ call.arg[k].mode = "Digital Only"
        /\ ( /\ Len(call.arg) = 2
             /\ call.arg[1].mode = "Digital Only" /\ ~call.arg[1].exc
             /\ call.arg[2].mode = "In-Person" )
           => Len(call.out) = 1 /\ call.out[1].name = call.arg[1].text


\* the columns of a row other than Status
Data(rs) ==
    [i \in DOMAIN rs |->
        [name |-> rs[i].name, platform |-> rs[i].platform, link |-> rs[i].link,
         start_date |-> rs[i].start_date, tags |-> rs[i].tags,
         scraped_at |-> rs[i].scraped_at]]

IsPrefix(a, b) == Len(a) <= Len(b) /\ SubSeq(b, 1, Len(a)) = a

\* C18: the rows (name, platform, link, start_date, tags, scraped_at) of the
\* store before a save_hackathons call are a prefix of its rows after the
\* call, and a call that returns has put the batch, in its order and with no
\* duplicate check, right after them.
C18_AppendOnly ==
    call.op = "save"
    => /\ IsPrefix(Data(call.before.rows), Data(rows))
       /\ ~call.raised => rows = call.before.rows \o WrittenRows(call.arg)

\* the rows of rs whose name cell equals name
Hits(rs, name) == {i \in DOMAIN rs : rs[i].name = name}

\* C19: update_hackathon_status(name, status) raises nothing; when no row has
\* exactly that name the store is what it was before the call; otherwise the
\* first such row has the new status and every other cell of the sheet is
\* what it was.
C19_UpdateFirstMatch ==
    call.op = "update"
    => LET b    == call.before.rows
           hits == Hits(b, call.arg[1].name)
       IN  /\ ~call.raised
           /\ hits = {} => file = call.before.file /\ rows = b
           /\ hits # {} =>
                 /\ file = "ok"
                 /\ rows = [b EXCEPT ![MinOf(hits)].status = call.arg[1].status]

\* C20: ExcelManager(path) on a path with no file, when it returns, has made
\* a file with the header row of self.headers and no data row; on a file
\* that loads and whose header row differs it does not raise and leaves the
\* file as it is, get_existing_hackathons then reads its rows, and
\* save_hackathons then appends after them.
C20_StoreInit ==
    call.op = "construct"
    => /\ (call.before.file = "missing" /\ ~call.raised)
            => file = "ok" /\ headers = Headers /\ rows = <<>>
       /\ (call.before.file = "ok" /\ call.before.headers # Headers)
            => /\ ~call.raised
               /\ file = "ok"
               /\ rows = call.before.rows
               /\ get_existing_hackathons(file, rows)
                    = [recs |-> SelectRows(call.before.rows), raised |-> FALSE]
               /\ \A batch \in Batches :
                    save_hackathons(file, rows, batch, "ok")
                      = [file |-> "ok", rows |-> rows \o WrittenRows(batch), raised |-> FALSE]

\* the constructor has run on a store with rows whose header row had drifted
C20_Witness ==
    /\ call.op = "construct"
    /\ call.before.file = "ok"
    /\ call.before.headers # Headers
    /\ call.before.rows # <<>>
    /\ ~call.raised

RECURSIVE IsSubseq(_, _)
IsSubseq(s, t) ==
    IF s = <<>> THEN TRUE
    ELSE IF t = <<>> THEN FALSE
    ELSE IF Head(s) = Head(t) THEN IsSubseq(Tail(s), Tail(t))
    ELSE IsSubseq(s, Tail(t))

\* C21: while MLH has not been reached nothing of MLH or Unstop was scraped,
\* and while Unstop has not been reached nothing of Unstop; a platform that
\* is not enabled is not scraped and no record is its own; all_hackathons
\* is DevPost's result, then MLH's, then Unstop's; the delta is a
\* subsequence of it; and a save that succeeded put the delta's rows after
\* the rows of the store, in the delta's order.
C21_PlatformOrder ==
    /\ pc \in {"devpost", "mlh"} => res["MLH"] = NoRes
    /\ pc \in {"devpost", "mlh", "unstop"} => res["Unstop"] = NoRes
    /\ \A p \in Platforms :
         ~Enabled(Key(p))
         => /\ res[p] = NoRes
            /\ \A i \in DOMAIN all_hackathons : all_hackathons[i].platform # p
    /\ all_hackathons = res["DevPost"].recs \o res["MLH"].recs \o res["Unstop"].recs
    /\ IsSubseq(new_hackathons, all_hackathons)
    /\ (pc = "done" /\ saved = "ok")
         => /\ file = "ok"
            /\ rows = start.rows \o WrittenRows(new_hackathons)

\* a cycle with MLH switched off in which DevPost and Unstop both gave
\* records, the filter dropped some of them, and the rest was saved
C21_Witness ==
    /\ pc = "done"
    /\ saved = "ok"
    /\ ~Enabled("mlh")
    /\ res["DevPost"].recs # <<>>
    /\ res["Unstop"].recs # <<>>
    /\ Len(new_hackathons) >= 2
    /\ Len(new_hackathons) < Len(all_hackathons)

\* the names of matches that found_names keeps, each once, in the order in
\* which the text shows them first
RECURSIVE InTextOrder(_, _)
InTextOrder(matches, seen) ==
    IF matches = <<>> THEN <<>>
    ELSE LET c == Strip(Head(matches))
         IN  IF Len(c) > 10 /\ Len(c) < 100 /\ c \notin seen
             THEN <<c>> \o InTextOrder(Tail(matches), seen \cup {c})
             ELSE InTextOrder(Tail(matches), seen)

\* C22: the records extract_hackathons_from_text returns for a text are
\* those of the first 5 names the text shows, in the order of the text, so
\* that the same text always gives the same records.
C22_SourceOrder ==
    (call.op = "extract_hackathons_from_text" /\ call.arg # <<>>)
    => [i \in DOMAIN call.out |-> call.out[i].name]
         = Take(InTextOrder(call.arg, {}), TextLimit)

\* C23: every record a platform scrape returned has a name that is a
\* non-empty string, and so has every record of the delta and every row the
\* cycle appended.
C23_NonEmptyNames ==
    /\ \A p \in Platforms : \A i \in DOMAIN res[p].recs : Truthy(res[p].recs[i].name)
    /\ \A i \in DOMAIN new_hackathons : Truthy(new_hackathons[i].name)
    /\ (pc = "done" /\ saved = "ok")
         => \A i \in (Len(start.rows) + 1)..Len(rows) : Truthy(rows[i].name)

\* C24: what get_existing_hackathons gave the cycle, on a store that loads,
\* is the rows with a name, each once and in row order; rows without a name
\* are left out, wherever they stand.
C24_ReadSkipsBlank ==
    (pc # "idle" /\ start.file = "ok")
    => /\ IsSubseq(existing_hackathons, start.rows)
       /\ \A i \in DOMAIN existing_hackathons : Truthy(existing_hackathons[i].name)
       /\ Len(existing_hackathons)
            = Cardinality({i \in DOMAIN start.rows : Truthy(start.rows[i].name)})

\* the cycle read a store whose first row has no name and whose second has
C24_Witness ==
    /\ pc # "idle"
    /\ start.file = "ok"
    /\ Len(start.rows) >= 2
    /\ ~Truthy(start.rows[1].name)
    /\ Truthy(start.rows[2].name)
    /\ existing_hackathons = <<start.rows[2]>>

\* the cards among the first 15 that do not raise and whose title has at
\* least 5 characters and is not 'unknown', 'hackathon' or 'challenge'
GoodCards(cards) ==
    {i \in DOMAIN cards :
        /\ i <= CardLimit
        /\ ~cards[i].exc
        /\ Len(cards[i].title) >= 5
        /\ Lower(cards[i].title) \notin {"unknown", "hackathon", "challenge"}}

\* C25: scrape_devpost never returns more than 15 records; when some card
\* among the first 15 is good, the result has one record for each good
\* card, in card order, whatever cards raised before or after it.
C25_PerCardRecovery ==
    call.op = "scrape_devpost"
    => LET good  == GoodCards(call.arg)
           names == [i \in DOMAIN call.out |-> call.out[i].name]
       IN  /\ ~call.raised
           /\ Len(call.out) <= CardLimit
           /\ good # {}
                => /\ Len(call.out) = Cardinality(good)
                   /\ \A i \in good : call.arg[i].title \in Range(names)
                   /\ IsSubseq(names, [i \in DOMAIN call.arg |-> call.arg[i].title])

\* a page of more than 15 cards one of whose first 15 raised, between good
\* cards, and the other 14 were returned
C25_Witness ==
    /\ call.op = "scrape_devpost"
    /\ Len(call.arg) > CardLimit
    /\ \E i \in 2..(CardLimit - 1) : call.arg[i].exc
    /\ Len(call.out) = CardLimit - 1

\* the summary notifications among the notifications sent
Summaries == {i \in DOMAIN sent : sent[i].title = "New Hackathons Found!"}

\* C26: when the cycle has sent the summary of new hackathons,
\* save_hackathons has returned for the delta and the delta's rows are in
\* the store; a cycle whose save failed has sent no notification.
C26_NotifyAfterPersist ==
    /\ Summaries # {}
         => /\ saved = "ok"
            /\ file = "ok"
            /\ rows = start.rows \o WrittenRows(new_hackathons)
            /\ \A i \in Summaries : sent[i].new = Len(new_hackathons)
    /\ saved = "failed" => sent = <<>>

\* a cycle that saved its delta and sent the summary, and one could not
\* have been sent before: the store was empty when the cycle began
C26_Witness ==
    /\ pc = "done"
    /\ saved = "ok"
    /\ start.rows = <<>>
    /\ Len(new_hackathons) >= 2
    /\ Summaries = {1}
    /\ sent[1].new = Len(new_hackathons)

\* the _monitoring_loop threads that have not ended
LoopsAlive == {i \in DOMAIN threads : threads[i].kind = "loop" /\ threads[i].at # "exit"}

\* C27: at most one _monitoring_loop thread is alive.
C27_SingleLoop == Cardinality(LoopsAlive) <= 1

\* no loop thread is alive
LoopsEnded == LoopsAlive = {}

\* a step that takes a loop thread into a cycle while the flag is down
StartsCycleStopped ==
    /\ ~is_monitoring
    /\ \E i \in DOMAIN threads :
          /\ threads[i].kind = "loop"
          /\ threads[i].at # "cycle"
          /\ threads'[i].at = "cycle"

C29_ConstructKeepsRows ==
    (call.op = "construct" /\ call.before.file # "missing")
    => rows = call.before.rows

\* C30: a cycle whose delta is empty has not called save_hackathons, and the
\* store after the cycle is the store before it.
C30_EmptyDeltaNoWrite ==
    (pc = "done" /\ new_hackathons = <<>>)
    => /\ saved = "none"
       /\ file = start.file
       /\ rows = start.rows

\* a cycle on a store with rows in which the platforms returned records and
\* the filter dropped them all
C30_Witness ==
    /\ pc = "done"
    /\ start.file = "ok"
    /\ start.rows # <<>>
    /\ all_hackathons # <<>>
    /\ new_hackathons = <<>>
    /\ rows = start.rows

====
